---------------------------- MODULE Spec2Model ----------------------------
(***************************************************************************)
(* A model of regex_toolkit.base.RegexToolkit (src/regex_toolkit/base.py). *)
(*                                                                         *)
(* Representation.  A Python str is a sequence of code points (naturals);  *)
(* a character is a str of length one, so ord(c) is c[1] and chr(i) is     *)
(* <<i>>.  A tuple or list is a sequence.  A span is a pair <<x1, x2>>.    *)
(* An argument that may be None is None or Some(v).                        *)
(* The outcome of a call is a record: [kind |-> "return", val |-> v] or    *)
(* [kind |-> "raise", exc |-> name].                                       *)
(*                                                                         *)
(* The library is stateless; the state of the model is one caller: the     *)
(* operation it is in, the arguments it passed, the locals of a running    *)
(* loop and the outcome.                                                   *)
(***************************************************************************)
EXTENDS Integers, Sequences, FiniteSets

VARIABLES pc, op, args, acc, idx, ret

vars == <<pc, op, args, acc, idx, ret>>

----------------------------------------------------------------------------
(* Bounds of the input sets.                                               *)

MaxTextLen == 3
MaxSpans == 2
MaxStrLen == 3
MaxTexts == 3
MaxCodepointLen == 4
MaxOrd == 300
MaxRangeOrd == 6

----------------------------------------------------------------------------
(* Python built-ins the code relies on.                                    *)

(* An optional argument: None, or Some(v) with the value in v.              *)
None == << >>

Some(v) == << v >>

ValueOf(opt) == opt[1]

Return(v) == [kind |-> "return", val |-> v]

Raise(e) == [kind |-> "raise", exc |-> e]

NoOutcome == [kind |-> "none"]

Min(a, b) == IF a <= b THEN a ELSE b

Max(a, b) == IF a >= b THEN a ELSE b

Ord(c) == c[1]

Chr(i) == << i >>

RECURSIVE Reversed(_)
Reversed(s) ==
    IF s = << >> THEN << >> ELSE Append(Reversed(Tail(s)), Head(s))

RECURSIVE Join(_, _)
Join(sep, parts) ==
    IF parts = << >> THEN << >>
    ELSE IF Len(parts) = 1 THEN Head(parts)
    ELSE Head(parts) \o sep \o Join(sep, Tail(parts))

Zip(a, b) == [i \in 1..Min(Len(a), Len(b)) |-> << a[i], b[i] >>]

Chars(text) == [i \in 1..Len(text) |-> << text[i] >>]

(* A slice bound as PySlice_AdjustIndices clamps it for a str of length n. *)
SliceIndex(i, n) == IF i < 0 THEN Max(i + n, 0) ELSE Min(i, n)

SliceTo(text, stop) == SubSeq(text, 1, SliceIndex(stop, Len(text)))

SliceFrom(text, start) ==
    SubSeq(text, SliceIndex(start, Len(text)) + 1, Len(text))

----------------------------------------------------------------------------
(* string.ascii_letters, string.digits, string.whitespace and              *)
(* string.punctuation, and the class attributes built from them.           *)

AsciiLetters == (65..90) \cup (97..122)

AsciiDigits == 48..57

AsciiWhitespace == {32, 9, 10, 13, 11, 12}

AsciiPunctuation == (33..47) \cup (58..64) \cup (91..96) \cup (123..126)

alpha_chars == {Chr(i) : i \in AsciiLetters}

digit_chars == {Chr(i) : i \in AsciiDigits}

safe_chars ==
    (alpha_chars \cup digit_chars) \cup {Chr(i) : i \in AsciiWhitespace}

escapable_chars == {Chr(i) : i \in AsciiPunctuation}

----------------------------------------------------------------------------
(* Length Sorter.                                                          *)

(* list.sort on a short list is a binary insertion sort: each element is   *)
(* inserted after the elements whose key is not greater.                   *)
RECURSIVE InsertByLen(_, _)
InsertByLen(sorted, x) ==
    IF sorted = << >> THEN << x >>
    ELSE IF Len(x) < Len(Head(sorted)) THEN << x >> \o sorted
    ELSE << Head(sorted) >> \o InsertByLen(Tail(sorted), x)

RECURSIVE StableSortByLen(_)
StableSortByLen(xs) ==
    IF xs = << >> THEN << >>
    ELSE InsertByLen(StableSortByLen(SubSeq(xs, 1, Len(xs) - 1)), xs[Len(xs)])

(* Variant: reverse as a reversal of the ascending order.                  *)
SortedNaiveReverse(xs, reverse) ==
    IF reverse THEN Reversed(StableSortByLen(xs)) ELSE StableSortByLen(xs)

(* sorted(texts, key=len, reverse=reverse): with reverse the list is       *)
(* reversed, sorted and reversed again, which keeps equal keys in order.   *)
SortedByLen(xs, reverse) ==
    IF reverse THEN Reversed(StableSortByLen(Reversed(xs)))
    ELSE StableSortByLen(xs)

iter_sort_by_len(texts, reverse) == SortedByLen(texts, reverse)

sort_by_len(texts, reverse) == iter_sort_by_len(texts, reverse)

----------------------------------------------------------------------------
(* Codepoint Utilities.                                                    *)

CodepointWidth == 8

HexBase == 16

(* The digit characters format(n, "x") writes: 0-9 and lowercase a-f.      *)
HexDigitChar(d) == IF d < 10 THEN 48 + d ELSE 87 + d

RECURSIVE FormatHexNat(_)
FormatHexNat(n) ==
    IF n < HexBase THEN << HexDigitChar(n) >>
    ELSE Append(FormatHexNat(n \div HexBase), HexDigitChar(n % HexBase))

(* format(n, "x"): a negative number is written with a leading "-".        *)
FormatHex(n) == IF n < 0 THEN << 45 >> \o FormatHexNat(-n) ELSE FormatHexNat(n)

(* str.zfill(width): zeros go after a leading sign; a str that is already  *)
(* wide enough is returned as it is.                                       *)
ZFill(s, width) ==
    LET fill == [i \in 1..(width - Len(s)) |-> 48]
    IN  IF Len(s) >= width THEN s
        ELSE IF s # << >> /\ s[1] \in {43, 45}
             THEN << s[1] >> \o fill \o Tail(s)
             ELSE fill \o s

(* Variant: padded to 4 digits.                                            *)
ord_to_codepoint_short(ordinal) == ZFill(FormatHex(ordinal), CodepointWidth - 4)

ord_to_codepoint(ordinal) == ZFill(FormatHex(ordinal), CodepointWidth)

(* Py_ISSPACE.                                                             *)
IsSpace(c) == c \in AsciiWhitespace

(* _PyLong_DigitValue: 37 for a character that is a digit in no base.       *)
DigitValue(c) ==
    IF c \in 48..57 THEN c - 48
    ELSE IF c \in 97..122 THEN c - 87
    ELSE IF c \in 65..90 THEN c - 55
    ELSE 37

RECURSIVE SkipSpaces(_, _)
SkipSpaces(s, i) ==
    IF i <= Len(s) /\ IsSpace(s[i]) THEN SkipSpaces(s, i + 1) ELSE i

(* The scan of long_from_binary_base: digits of the base and underscores.  *)
RECURSIVE ScanDigits(_, _)
ScanDigits(s, i) ==
    IF i <= Len(s) /\ (DigitValue(s[i]) < HexBase \/ s[i] = 95)
    THEN ScanDigits(s, i + 1) ELSE i

RECURSIVE DigitsValue(_)
DigitsValue(body) ==
    IF body = << >> THEN 0
    ELSE LET last == body[Len(body)]
             rest == SubSeq(body, 1, Len(body) - 1)
         IN  IF last = 95 THEN DigitsValue(rest)
             ELSE DigitsValue(rest) * HexBase + DigitValue(last)

(* int(s, 16) (PyLong_FromString): spaces, a sign, "0x" or "0X" and one    *)
(* underscore after it, digits with single underscores between them,       *)
(* spaces; anything else raises ValueError.                                *)
IntBase16(s) ==
    LET n == Len(s)
        At(i) == IF i <= n THEN s[i] ELSE 0
        i0 == SkipSpaces(s, 1)
        sign == IF At(i0) = 45 THEN -1 ELSE 1
        i1 == IF At(i0) \in {43, 45} THEN i0 + 1 ELSE i0
        hasPrefix == At(i1) = 48 /\ At(i1 + 1) \in {120, 88}
        i2 == IF hasPrefix
              THEN (IF At(i1 + 2) = 95 THEN i1 + 3 ELSE i1 + 2)
              ELSE i1
        i3 == ScanDigits(s, i2)
        body == SubSeq(s, i2, i3 - 1)
        i4 == SkipSpaces(s, i3)
        doubled ==
            \E k \in 1..(Len(body) - 1) : body[k] = 95 /\ body[k + 1] = 95
        trailing == body # << >> /\ body[Len(body)] = 95
    IN  IF At(i2) = 95 \/ doubled \/ trailing \/ i3 = i2 \/ i4 <= n
        THEN Raise("ValueError")
        ELSE Return(sign * DigitsValue(body))

(* Variant: only hexadecimal digits are read.                              *)
IntDigitsOnly(s) ==
    IF s # << >> /\ \A k \in 1..Len(s) : DigitValue(s[k]) < HexBase
    THEN Return(DigitsValue(s))
    ELSE Raise("ValueError")

codepoint_to_ord(codepoint) == IntBase16(codepoint)

char_to_codepoint(char) == ord_to_codepoint(Ord(char))

----------------------------------------------------------------------------
(* Escaper.                                                                *)

Backslash == << 92 >>

(* Variant: every character escaped.                                       *)
char_as_exp_escape_all(char) == Backslash \o char

char_as_exp(char) ==
    IF char \in safe_chars THEN char ELSE Backslash \o char

(* Variant: punctuation escaped by code point.                             *)
char_as_exp2_no_escapable(char) ==
    IF char \in safe_chars THEN char
    ELSE << 92, 120, 123 >> \o char_to_codepoint(char) \o << 125 >>

char_as_exp2(char) ==
    IF char \in safe_chars THEN char
    ELSE IF char \in escapable_chars THEN Backslash \o char
    ELSE << 92, 120, 123 >> \o char_to_codepoint(char) \o << 125 >>

(* "".join(map(f, text)): map walks the characters of text in order.       *)
string_as_exp(text) ==
    Join(<< >>, [i \in 1..Len(text) |-> char_as_exp(Chars(text)[i])])

string_as_exp2(text) ==
    Join(<< >>, [i \in 1..Len(text) |-> char_as_exp2(Chars(text)[i])])

----------------------------------------------------------------------------
(* Alternation Builder.                                                    *)

Pipe == << 124 >>

(* Variant: the strings joined in input order.                             *)
strings_as_exp_unsorted(texts) ==
    Join(Pipe, [i \in 1..Len(texts) |-> string_as_exp(texts[i])])

strings_as_exp(texts) ==
    LET sorted == iter_sort_by_len(texts, TRUE)
    IN  Join(Pipe, [i \in 1..Len(sorted) |-> string_as_exp(sorted[i])])

strings_as_exp2(texts) ==
    LET sorted == iter_sort_by_len(texts, TRUE)
    IN  Join(Pipe, [i \in 1..Len(sorted) |-> string_as_exp2(sorted[i])])

----------------------------------------------------------------------------
(* Span Masker.                                                            *)

(* Variant: the span validated before slicing.                             *)
mask_span_checked(text, span, mask) ==
    IF 0 <= span[1] /\ span[1] <= span[2] /\ span[2] <= Len(text)
    THEN Return(SliceTo(text, span[1])
                \o (IF mask = None THEN << >> ELSE ValueOf(mask))
                \o SliceFrom(text, span[2]))
    ELSE Raise("RangeError")

mask_span(text, span, mask) ==
    IF mask = None
    THEN Return(SliceTo(text, span[1]) \o SliceFrom(text, span[2]))
    ELSE Return(SliceTo(text, span[1]) \o ValueOf(mask)
                \o SliceFrom(text, span[2]))

(* Variant: the pairs walked first to last.                                *)
MaskPairsForward(spans, masks) ==
    IF masks = None
    THEN [i \in 1..Len(spans) |-> << spans[i], None >>]
    ELSE [i \in 1..Min(Len(spans), Len(ValueOf(masks))) |->
             << spans[i], Some(ValueOf(masks)[i]) >>]

(* The pairs the loop of mask_spans walks: reversed(spans) with no masks,  *)
(* zip(reversed(spans), reversed(masks)) with masks; zip stops with the    *)
(* shorter of the two.                                                     *)
MaskPairs(spans, masks) ==
    IF masks = None
    THEN [i \in 1..Len(spans) |-> << Reversed(spans)[i], None >>]
    ELSE LET zipped == Zip(Reversed(spans), Reversed(ValueOf(masks)))
         IN  [i \in 1..Len(zipped) |-> << zipped[i][1], Some(zipped[i][2]) >>]

----------------------------------------------------------------------------
(* Character range.                                                        *)

(* Variant: the last code point left out.                                  *)
RangeStopExclusive(last_codepoint) == Ord(last_codepoint)

(* The stop of range(ord(first_codepoint), ord(last_codepoint) + 1).       *)
RangeStop(last_codepoint) == Ord(last_codepoint) + 1

----------------------------------------------------------------------------
(* The inputs of the calls.                                                *)

SeqsUpTo(S, n) == UNION {[1..k -> S] : k \in 0..n}

(* "", "a", "ab", "abc", ...                                               *)
MaskTexts == {[i \in 1..n |-> 96 + i] : n \in 0..MaxTextLen}

(* "X" and "YZ".                                                           *)
MaskPool == {<< 88 >>, << 89, 90 >>}

AnySpans(text) ==
    {<< a, b >> : a, b \in (-(Len(text) + 1))..(Len(text) + 1)}

OrderedSpans(text) ==
    {sp \in (0..Len(text)) \X (0..Len(text)) : sp[1] <= sp[2]}

(* "a", ".", "\" and U+00E9.                                               *)
EscAlphabet == {97, 46, 92, 233}

EscStrings == SeqsUpTo(EscAlphabet, MaxStrLen)

CharOrds == (0..MaxOrd) \cup {65535, 65536, 1114111}

OrdSamples == CharOrds \cup {-1, 1114112}

(* "", "a", U+00E9, "ab", "b|", "abc".                                     *)
TextPool ==
    {<< >>, << 97 >>, << 233 >>, << 97, 98 >>, << 98, 124 >>, << 97, 98, 99 >>}

TextLists == SeqsUpTo(TextPool, MaxTexts)

(* "0", "1", "f", "g", "x", "_", "-", "+" and " ".                          *)
ParseAlphabet == {48, 49, 102, 103, 120, 95, 45, 43, 32}

CodepointStrings ==
    SeqsUpTo(ParseAlphabet, MaxCodepointLen)
        \cup {ord_to_codepoint(n) : n \in CharOrds}
        \cup {<< 48, 88, 49, 70 >>, << 9, 70, 10 >>}

RangeOrds == {97 + k : k \in 0..MaxRangeOrd} \cup {0, 1114111}

----------------------------------------------------------------------------
(* The caller.                                                             *)

Init ==
    /\ pc = "idle"
    /\ op = "none"
    /\ args = << >>
    /\ acc = << >>
    /\ idx = 0
    /\ ret = NoOutcome

(* A call of a function without a loop of its own runs to its outcome in   *)
(* one step; the caller then drops the outcome and is free to call again.  *)
Reset ==
    /\ pc = "returned"
    /\ pc' = "idle"
    /\ op' = "none"
    /\ args' = << >>
    /\ acc' = << >>
    /\ idx' = 0
    /\ ret' = NoOutcome

CallSortByLen ==
    /\ pc = "idle"
    /\ \E texts \in TextLists, reverse \in BOOLEAN :
           /\ pc' = "returned"
           /\ op' = "sort_by_len"
           /\ args' = << texts, reverse >>
           /\ ret' = Return(sort_by_len(texts, reverse))
           /\ UNCHANGED << acc, idx >>

CallIterSortByLen ==
    /\ pc = "idle"
    /\ \E texts \in TextLists, reverse \in BOOLEAN :
           /\ pc' = "returned"
           /\ op' = "iter_sort_by_len"
           /\ args' = << texts, reverse >>
           /\ ret' = Return(iter_sort_by_len(texts, reverse))
           /\ UNCHANGED << acc, idx >>

CallOrdToCodepoint ==
    /\ pc = "idle"
    /\ \E ordinal \in OrdSamples :
           /\ pc' = "returned"
           /\ op' = "ord_to_codepoint"
           /\ args' = << ordinal >>
           /\ ret' = Return(ord_to_codepoint(ordinal))
           /\ UNCHANGED << acc, idx >>

CallCodepointToOrd ==
    /\ pc = "idle"
    /\ \E codepoint \in CodepointStrings :
           /\ pc' = "returned"
           /\ op' = "codepoint_to_ord"
           /\ args' = << codepoint >>
           /\ ret' = codepoint_to_ord(codepoint)
           /\ UNCHANGED << acc, idx >>

CallCharToCodepoint ==
    /\ pc = "idle"
    /\ \E o \in CharOrds :
           /\ pc' = "returned"
           /\ op' = "char_to_codepoint"
           /\ args' = << Chr(o) >>
           /\ ret' = Return(char_to_codepoint(Chr(o)))
           /\ UNCHANGED << acc, idx >>

CallCharAsExp ==
    /\ pc = "idle"
    /\ \E o \in CharOrds :
           /\ pc' = "returned"
           /\ op' = "char_as_exp"
           /\ args' = << Chr(o) >>
           /\ ret' = Return(char_as_exp(Chr(o)))
           /\ UNCHANGED << acc, idx >>

CallCharAsExp2 ==
    /\ pc = "idle"
    /\ \E o \in CharOrds :
           /\ pc' = "returned"
           /\ op' = "char_as_exp2"
           /\ args' = << Chr(o) >>
           /\ ret' = Return(char_as_exp2(Chr(o)))
           /\ UNCHANGED << acc, idx >>

CallStringAsExp ==
    /\ pc = "idle"
    /\ \E text \in EscStrings :
           /\ pc' = "returned"
           /\ op' = "string_as_exp"
           /\ args' = << text >>
           /\ ret' = Return(string_as_exp(text))
           /\ UNCHANGED << acc, idx >>

CallStringAsExp2 ==
    /\ pc = "idle"
    /\ \E text \in EscStrings :
           /\ pc' = "returned"
           /\ op' = "string_as_exp2"
           /\ args' = << text >>
           /\ ret' = Return(string_as_exp2(text))
           /\ UNCHANGED << acc, idx >>

CallStringsAsExp ==
    /\ pc = "idle"
    /\ \E texts \in TextLists :
           /\ pc' = "returned"
           /\ op' = "strings_as_exp"
           /\ args' = << texts >>
           /\ ret' = Return(strings_as_exp(texts))
           /\ UNCHANGED << acc, idx >>

CallStringsAsExp2 ==
    /\ pc = "idle"
    /\ \E texts \in TextLists :
           /\ pc' = "returned"
           /\ op' = "strings_as_exp2"
           /\ args' = << texts >>
           /\ ret' = Return(strings_as_exp2(texts))
           /\ UNCHANGED << acc, idx >>

CallMaskSpan ==
    /\ pc = "idle"
    /\ \E text \in MaskTexts :
           \E span \in AnySpans(text),
              mask \in {Some(m) : m \in MaskPool \cup {<< >>}} \cup {None} :
               /\ pc' = "returned"
               /\ op' = "mask_span"
               /\ args' = << text, span, mask >>
               /\ ret' = mask_span(text, span, mask)
               /\ UNCHANGED << acc, idx >>

(* char_range and iter_char_range: the loop over range(...) yields one     *)
(* character a step; char_range collects all of them in a tuple.           *)
CallCharRange ==
    /\ pc = "idle"
    /\ \E name \in {"char_range", "iter_char_range"} :
           \E a, b \in RangeOrds :
               /\ b - a <= MaxRangeOrd
               /\ pc' = "loop"
               /\ op' = name
               /\ args' = << Chr(a), Chr(b) >>
               /\ acc' = << >>
               /\ idx' = a
               /\ ret' = NoOutcome

InCharRange == pc = "loop" /\ op \in {"char_range", "iter_char_range"}

CharRangeStep ==
    /\ InCharRange
    /\ idx < RangeStop(args[2])
    /\ acc' = Append(acc, Chr(idx))
    /\ idx' = idx + 1
    /\ UNCHANGED << pc, op, args, ret >>

CharRangeReturn ==
    /\ InCharRange
    /\ ~(idx < RangeStop(args[2]))
    /\ pc' = "returned"
    /\ ret' = Return(acc)
    /\ UNCHANGED << op, args, acc, idx >>

(* mask_spans: text is rebound once per pair of the loop.                  *)
CallMaskSpans ==
    /\ pc = "idle"
    /\ \E text \in MaskTexts :
           \E spans \in SeqsUpTo(OrderedSpans(text), MaxSpans),
              masks \in {Some(ms) : ms \in SeqsUpTo(MaskPool, MaxSpans + 1)}
                           \cup {None} :
               /\ pc' = "loop"
               /\ op' = "mask_spans"
               /\ args' = << text, spans, masks >>
               /\ acc' = text
               /\ idx' = 0
               /\ ret' = NoOutcome

InMaskSpans == pc = "loop" /\ op = "mask_spans"

MaskSpansStep ==
    /\ InMaskSpans
    /\ idx < Len(MaskPairs(args[2], args[3]))
    /\ LET pair == MaskPairs(args[2], args[3])[idx + 1]
           out == mask_span(acc, pair[1], pair[2])
       IN  IF out.kind = "return"
           THEN /\ acc' = out.val
                /\ idx' = idx + 1
                /\ UNCHANGED << pc, op, args, ret >>
           ELSE /\ pc' = "returned"
                /\ ret' = out
                /\ UNCHANGED << op, args, acc, idx >>

MaskSpansReturn ==
    /\ InMaskSpans
    /\ idx = Len(MaskPairs(args[2], args[3]))
    /\ pc' = "returned"
    /\ ret' = Return(acc)
    /\ UNCHANGED << op, args, acc, idx >>

Next ==
    \/ CallSortByLen
    \/ CallIterSortByLen
    \/ CallOrdToCodepoint
    \/ CallCodepointToOrd
    \/ CallCharToCodepoint
    \/ CallCharRange
    \/ CharRangeStep
    \/ CharRangeReturn
    \/ CallCharAsExp
    \/ CallCharAsExp2
    \/ CallStringAsExp
    \/ CallStringAsExp2
    \/ CallStringsAsExp
    \/ CallStringsAsExp2
    \/ CallMaskSpan
    \/ CallMaskSpans
    \/ MaskSpansStep
    \/ MaskSpansReturn
    \/ Reset

Spec == Init /\ [][Next]_vars

----------------------------------------------------------------------------
(* Properties of the Span Masker.                                          *)

InRange(text, span) ==
    0 <= span[1] /\ span[1] <= span[2] /\ span[2] <= Len(text)

(* Spans in ascending position order, none overlapping the next.           *)
AscendingDisjoint(text, spans) ==
    /\ \A i \in 1..Len(spans) : InRange(text, spans[i])
    /\ \A i \in 1..(Len(spans) - 1) : spans[i][2] <= spans[i + 1][1]

MasksMatch(spans, masks) ==
    masks = None \/ Len(ValueOf(masks)) = Len(spans)

MaskAt(masks, i) == IF masks = None THEN << >> ELSE ValueOf(masks)[i]

(* The text from offset pos on, with span i, i+1, ... of the original text *)
(* replaced by their masks: all replacements made at once, left to right.  *)
RECURSIVE Simultaneous(_, _, _, _, _)
Simultaneous(text, spans, masks, i, pos) ==
    IF i > Len(spans) THEN SubSeq(text, pos + 1, Len(text))
    ELSE SubSeq(text, pos + 1, spans[i][1])
             \o MaskAt(masks, i)
             \o Simultaneous(text, spans, masks, i + 1, spans[i][2])

(* C1: for spans in ascending order, pairwise non-overlapping and within   *)
(* the text, and one mask per span or no masks, mask_spans returns the     *)
(* text with every span replaced by its mask at once; while the loop runs, *)
(* the text up to the end of every span not yet applied is still the       *)
(* original text, so its offsets still mean what they meant.               *)
C1_MaskSpansSimultaneous ==
    (op = "mask_spans" /\ AscendingDisjoint(args[1], args[2])
                       /\ MasksMatch(args[2], args[3]))
    => /\ pc = "returned" =>
              ret = Return(Simultaneous(args[1], args[2], args[3], 1, 0))
       /\ pc = "loop" =>
              \A j \in 1..(Len(args[2]) - idx) :
                  /\ Len(acc) >= args[2][j][2]
                  /\ SubSeq(acc, 1, args[2][j][2])
                         = SubSeq(args[1], 1, args[2][j][2])

(* mask_spans("abc", [(0,1),(2,3)], ["YZ","X"]) has returned "YZbX".       *)
C1_Witness ==
    /\ pc = "returned"
    /\ op = "mask_spans"
    /\ args = << << 97, 98, 99 >>, << << 0, 1 >>, << 2, 3 >> >>,
                 Some(<< << 89, 90 >>, << 88 >> >>) >>
    /\ ret = Return(<< 89, 90, 98, 88 >>)

(* C2 as stated: mask_span ends in RangeError, and returns no string, when *)
(* start or end is outside [0, len(text)] or start > end, and returns a    *)
(* string only for 0 <= start <= end <= len(text).                         *)
C2_RangeErrorOutsideText ==
    op = "mask_span"
    => /\ InRange(args[1], args[2]) <=> ret.kind = "return"
       /\ ~InRange(args[1], args[2]) => ret = Raise("RangeError")

(* An offset as a slice of a str of length n reads it: below 0 it counts   *)
(* from the end, and it stops at either end of the str.                    *)
Clamped(i, n) ==
    IF i > n THEN n ELSE IF i >= 0 THEN i ELSE IF i >= -n THEN n + i ELSE 0

(* C2 amended: mask_span never ends in RangeError; for every pair of       *)
(* offsets it returns the text before the (clamped) start, the mask (or    *)
(* nothing), and the text from the (clamped) end on; that is               *)
(* text[:start] + mask + text[end:] when 0 <= start <= end <= len(text).   *)
C2_MaskSpanClamps ==
    op = "mask_span"
    => LET text == args[1]
           lo == Clamped(args[2][1], Len(text))
           hi == Clamped(args[2][2], Len(text))
           m == IF args[3] = None THEN << >> ELSE ValueOf(args[3])
       IN  /\ ret.kind = "return"
           /\ ret.val = SubSeq(text, 1, lo) \o m
                         \o SubSeq(text, hi + 1, Len(text))
           /\ InRange(text, args[2]) => lo = args[2][1] /\ hi = args[2][2]

(* mask_span("abc", (2, 1), "X") has returned "abXbc".                     *)
C2_Witness ==
    /\ op = "mask_span"
    /\ args = << << 97, 98, 99 >>, << 2, 1 >>, Some(<< 88 >>) >>
    /\ ret = Return(<< 97, 98, 88, 98, 99 >>)

(* C3: mask_spans ends in LengthMismatchError, and returns no string, when *)
(* masks are supplied and their number differs from the number of spans.   *)
C3_LengthMismatchError ==
    (op = "mask_spans" /\ pc = "returned"
        /\ args[3] # None /\ Len(ValueOf(args[3])) # Len(args[2]))
    => ret = Raise("LengthMismatchError")

----------------------------------------------------------------------------
(* Properties of the Escaper and of the Alternation Builder.               *)

SafeOrd(o) == o \in AsciiLetters \cup AsciiDigits \cup AsciiWhitespace

EscapableOrd(o) == o \in AsciiPunctuation

LowerHexDigits == (48..57) \cup (97..102)

(* The number a str of lowercase hexadecimal digits writes.                *)
RECURSIVE LowerHexValue(_)
LowerHexValue(h) ==
    IF h = << >> THEN 0
    ELSE LET d == h[Len(h)]
         IN  16 * LowerHexValue(SubSeq(h, 1, Len(h) - 1))
                 + (IF d <= 57 THEN d - 48 ELSE d - 87)

(* C4: char_as_exp2 has an outcome for every character, and the character  *)
(* is in exactly one of three cases: safe (letter, digit, whitespace),     *)
(* returned as it is; punctuation, never safe, returned after one          *)
(* backslash; any other, returned as \x{H}, H being 8 lowercase            *)
(* hexadecimal digits that write ord(c).                                   *)
C4_CharAsExp2Cases ==
    op = "char_as_exp2"
    => LET c == args[1]
           o == Ord(c)
           r == ret.val
       IN  /\ ret.kind = "return"
           /\ ~(SafeOrd(o) /\ EscapableOrd(o))
           /\ SafeOrd(o) => r = c
           /\ EscapableOrd(o) => r = << 92 >> \o c
           /\ (~SafeOrd(o) /\ ~EscapableOrd(o)) =>
                  /\ Len(r) = 12
                  /\ SubSeq(r, 1, 3) = << 92, 120, 123 >>
                  /\ r[12] = 125
                  /\ \A k \in 4..11 : r[k] \in LowerHexDigits
                  /\ LowerHexValue(SubSeq(r, 4, 11)) = o

(* char_as_exp2 of U+00E9 has returned \x{000000e9}.                       *)
C4_Witness ==
    /\ op = "char_as_exp2"
    /\ args = << << 233 >> >>
    /\ ret = Return(<< 92, 120, 123, 48, 48, 48, 48, 48, 48, 101, 57, 125 >>)

(* One fragment per character: a safe character, or a backslash and the    *)
(* character.                                                              *)
RECURSIVE Fragments(_)
Fragments(s) ==
    IF s = << >> THEN << >>
    ELSE (IF SafeOrd(s[1]) THEN << s[1] >> ELSE << 92, s[1] >>)
             \o Fragments(Tail(s))

(* The str with the backslash before each escaped character removed.       *)
RECURSIVE Unescaped(_)
Unescaped(r) ==
    IF r = << >> THEN << >>
    ELSE IF r[1] = 92 /\ Len(r) >= 2
         THEN << r[2] >> \o Unescaped(SubSeq(r, 3, Len(r)))
         ELSE << r[1] >> \o Unescaped(Tail(r))

(* C5: string_as_exp(s) is the fragments of the characters of s, in order  *)
(* and with nothing between them; removing the backslash before each       *)
(* escaped character gives s back, and no other string has the same        *)
(* result.                                                                 *)
C5_StringAsExpFragments ==
    op = "string_as_exp"
    => /\ ret = Return(Fragments(args[1]))
       /\ Unescaped(ret.val) = args[1]
       /\ \A other \in EscStrings :
              other # args[1] => string_as_exp(other) # ret.val

(* string_as_exp of "\a." has returned "\\a\.".                            *)
C5_Witness ==
    /\ op = "string_as_exp"
    /\ args = << << 92, 97, 46 >> >>
    /\ ret = Return(<< 92, 92, 97, 92, 46 >>)

(* The place of texts[i] in the order longest first, equal lengths in      *)
(* input order (with longestFirst FALSE: shortest first).                  *)
Place(texts, i, longestFirst) ==
    1 + Cardinality({j \in 1..Len(texts) :
                        \/ (longestFirst /\ Len(texts[j]) > Len(texts[i]))
                        \/ (~longestFirst /\ Len(texts[j]) < Len(texts[i]))
                        \/ (Len(texts[j]) = Len(texts[i]) /\ j < i)})

InLengthOrder(texts, longestFirst) ==
    [k \in 1..Len(texts) |->
        texts[CHOOSE i \in 1..Len(texts) : Place(texts, i, longestFirst) = k]]

RECURSIVE Branches(_)
Branches(parts) ==
    IF parts = << >> THEN << >>
    ELSE IF Len(parts) = 1 THEN parts[1]
    ELSE Branches(SubSeq(parts, 1, Len(parts) - 1))
             \o << 124 >> \o parts[Len(parts)]

IsProperPrefix(s, t) == Len(s) < Len(t) /\ SubSeq(t, 1, Len(s)) = s

(* C6: strings_as_exp and strings_as_exp2 return one branch per input      *)
(* string, duplicates included, each the escaped form of its string, the   *)
(* branches joined by "|" and ordered longest string first with equal      *)
(* lengths in input order; no strings give the empty string; a string that *)
(* is a proper prefix of another comes in a later branch than it.          *)
C6_AlternationLongestFirst ==
    op \in {"strings_as_exp", "strings_as_exp2"}
    => LET texts == args[1]
           ordered == InLengthOrder(texts, TRUE)
           escaped == [k \in 1..Len(texts) |->
                          IF op = "strings_as_exp"
                          THEN string_as_exp(ordered[k])
                          ELSE string_as_exp2(ordered[k])]
       IN  /\ ret = Return(Branches(escaped))
           /\ texts = << >> => ret.val = << >>
           /\ \A i, j \in 1..Len(texts) :
                  IsProperPrefix(texts[i], texts[j])
                  => Place(texts, j, TRUE) < Place(texts, i, TRUE)

(* strings_as_exp(["a", "ab"]) has returned "ab|a".                        *)
C6_Witness ==
    /\ op = "strings_as_exp"
    /\ args = << << << 97 >>, << 97, 98 >> >> >>
    /\ ret = Return(<< 97, 98, 124, 97 >>)

----------------------------------------------------------------------------
(* Properties of the Length Sorter.                                        *)

OfLength(texts, n) ==
    LET HasLength(x) == Len(x) = n
    IN  SelectSeq(texts, HasLength)

(* C7: sort_by_len and iter_sort_by_len give the same sequence: the input  *)
(* strings, each as often as in the input, longest first by default and    *)
(* shortest first with reverse=False, strings of one length in their       *)
(* input order either way.                                                 *)
C7_SortByLenStable ==
    op \in {"sort_by_len", "iter_sort_by_len"}
    => LET texts == args[1]
           reverse == args[2]
           r == ret.val
       IN  /\ ret.kind = "return"
           /\ Len(r) = Len(texts)
           /\ \A n \in {Len(x) : x \in TextPool} :
                  OfLength(r, n) = OfLength(texts, n)
           /\ \A i, j \in 1..Len(r) :
                  i < j => IF reverse THEN Len(r[i]) >= Len(r[j])
                                      ELSE Len(r[i]) <= Len(r[j])
           /\ r = InLengthOrder(texts, reverse)
           /\ sort_by_len(texts, reverse) = r
           /\ iter_sort_by_len(texts, reverse) = r

(* sort_by_len(["a", "ab", "b|"]) has returned ("ab", "b|", "a").          *)
C7_Witness ==
    /\ op = "sort_by_len"
    /\ args = << << << 97 >>, << 97, 98 >>, << 98, 124 >> >>, TRUE >>
    /\ ret = Return(<< << 97, 98 >>, << 98, 124 >>, << 97 >> >>)

----------------------------------------------------------------------------
(* Properties of the Codepoint Utilities.                                  *)

(* C8: for n in 0..0x10FFFF, ord_to_codepoint(n) is 8 lowercase            *)
(* hexadecimal digits and codepoint_to_ord reads n back from it.           *)
C8_CodepointRoundTrip ==
    (op = "ord_to_codepoint" /\ args[1] \in 0..1114111)
    => /\ Len(ret.val) = 8
       /\ \A k \in 1..Len(ret.val) : ret.val[k] \in LowerHexDigits
       /\ LowerHexValue(ret.val) = args[1]
       /\ codepoint_to_ord(ret.val) = Return(args[1])

(* ord_to_codepoint(0x10FFFF) has returned "0010ffff".                     *)
C8_Witness ==
    /\ op = "ord_to_codepoint"
    /\ args = << 1114111 >>
    /\ ret = Return(<< 48, 48, 49, 48, 102, 102, 102, 102 >>)

HexDigits == (48..57) \cup (97..102) \cup (65..70)

HexDigitsOnly(s) == s # << >> /\ \A k \in 1..Len(s) : s[k] \in HexDigits

(* C9 as stated: codepoint_to_ord returns an integer only for a str of     *)
(* hexadecimal digits alone, and ends in FormatError (ValueError) for      *)
(* every other str: one with a sign, a 0x prefix, whitespace around it or  *)
(* underscores between the digits included.                                *)
C9_OnlyHexDigitsParse ==
    op = "codepoint_to_ord"
    => /\ ret.kind = "return" <=> HexDigitsOnly(args[1])
       /\ ~HexDigitsOnly(args[1]) => ret = Raise("ValueError")

(* The digits after the sign and the prefix: hexadecimal digits, each      *)
(* underscore followed by a digit, and a digit first (after a prefix an    *)
(* underscore may come first).                                             *)
DigitGroups(b, afterPrefix) ==
    /\ b # << >>
    /\ \A k \in 1..Len(b) : b[k] \in HexDigits \cup {95}
    /\ \A k \in 1..Len(b) :
           b[k] = 95 => (k < Len(b) /\ b[k + 1] \in HexDigits)
    /\ afterPrefix \/ b[1] \in HexDigits

(* A str int(s, 16) reads: whitespace, an optional sign, an optional 0x or *)
(* 0X, the digits, whitespace.                                             *)
ReadableBase16(s) ==
    \E i, j \in 0..Len(s) :
        /\ i <= j
        /\ \A k \in 1..i : s[k] \in AsciiWhitespace
        /\ \A k \in (j + 1)..Len(s) : s[k] \in AsciiWhitespace
        /\ \E signed, prefixed \in BOOLEAN :
               LET core == SubSeq(s, i + 1, j)
                   s0 == IF signed THEN 1 ELSE 0
                   p0 == IF prefixed THEN 2 ELSE 0
               IN  /\ Len(core) >= s0 + p0
                   /\ signed => core[1] \in {43, 45}
                   /\ prefixed =>
                          core[s0 + 1] = 48 /\ core[s0 + 2] \in {120, 88}
                   /\ DigitGroups(SubSeq(core, s0 + p0 + 1, Len(core)),
                                  prefixed)

(* C9 amended: on an ASCII str, codepoint_to_ord ends in ValueError        *)
(* exactly when the str is not of the form int(s, 16) reads, and returns   *)
(* an integer otherwise: for hexadecimal digits alone the number they      *)
(* write, and also for digits with whitespace around them, a sign, a 0x    *)
(* prefix or single underscores between them.                              *)
C9_ParsesWhatIntReads ==
    op = "codepoint_to_ord"
    => /\ ret.kind = "return" <=> ReadableBase16(args[1])
       /\ ret.kind # "return" => ret = Raise("ValueError")
       /\ HexDigitsOnly(args[1]) =>
              ret = Return(LowerHexValue(
                        [k \in 1..Len(args[1]) |->
                            IF args[1][k] \in 65..70
                            THEN args[1][k] + 32 ELSE args[1][k]]))

(* codepoint_to_ord("-0x1") has returned -1.                               *)
C9_Witness ==
    /\ op = "codepoint_to_ord"
    /\ args = << << 45, 48, 120, 49 >> >>
    /\ ret = Return(-1)

(* C10: char_range(a, b) and iter_char_range(a, b) give the same sequence: *)
(* chr(ord(a)), chr(ord(a) + 1), ..., chr(ord(b)), each once, both bounds  *)
(* included, when ord(a) <= ord(b), and nothing when ord(a) > ord(b).      *)
C10_CharRangeInclusive ==
    (op \in {"char_range", "iter_char_range"} /\ pc = "returned")
    => LET a == Ord(args[1])
           b == Ord(args[2])
       IN  /\ ret.kind = "return"
           /\ a <= b =>
                  /\ Len(ret.val) = b - a + 1
                  /\ \A k \in 1..Len(ret.val) : ret.val[k] = << a + k - 1 >>
           /\ a > b => ret.val = << >>

(* char_range("a", "e") has returned ("a", "b", "c", "d", "e").            *)
C10_Witness ==
    /\ pc = "returned"
    /\ op = "char_range"
    /\ args = << << 97 >>, << 101 >> >>
    /\ ret = Return(<< << 97 >>, << 98 >>, << 99 >>, << 100 >>, << 101 >> >>)

=============================================================================
